---- MODULE Spec2Model ----
(***************************************************************************)
(* State-machine model of main.cpp: a GLFW/OpenGL program that opens a     *)
(* window, uploads one triangle, builds one shader program and renders it  *)
(* in a frame loop until the window close flag is set.                     *)
(*                                                                         *)
(* main() is a single sequential thread; pc is its position, one label per *)
(* statement (or group of consecutive GL calls).  The environment posts    *)
(* key/close events into the window system's queue; glfwPollEvents drains  *)
(* that queue and calls key_callback synchronously for each key event.     *)
(***************************************************************************)
EXTENDS Integers, Sequences, FiniteSets, TLC

----------------------------------------------------------------------------
(* Bounds of the model *)

\* frame-loop iterations explored
MaxIter == 2
\* events the environment posts during one run
MaxEvents == 2
\* key codes on either side of GLFW_KEY_ESCAPE delivered to key_callback
MaxKeySpan == 5
\* the last timer tick of the transform's own specification
MaxTick == 3

----------------------------------------------------------------------------
(* Program constants *)

GLFW_KEY_ESCAPE == 256
\* the key code next to escape, standing for any other key
GLFW_KEY_ENTER == GLFW_KEY_ESCAPE + 1
GLFW_RELEASE == 0
GLFW_PRESS == 1
GLFW_REPEAT == 2
EXIT_SUCCESS == 0
EXIT_FAILURE == 1
\* exit status of a process that has not exited
NoExit == -1
\* window size requested at creation
InitWidth == 640
InitHeight == 480
\* swap interval requested (vsync)
SwapIntervalOne == 1
\* location returned for a name that is not an active uniform/attribute
NotFound == -1

KeyActions == {GLFW_RELEASE, GLFW_PRESS, GLFW_REPEAT}

\* events the window system can queue for the window
KeyEvent(k, a) == [type |-> "key", key |-> k, action |-> a]
CloseEvent == [type |-> "close", key |-> 0, action |-> 0]

\* every (key, action) pair key_callback is exercised with
CallbackKeys ==
    (GLFW_KEY_ESCAPE - MaxKeySpan)..(GLFW_KEY_ESCAPE + MaxKeySpan)
CallbackEvents == {KeyEvent(k, a) : k \in CallbackKeys, a \in KeyActions}

\* the events the environment posts during a run of main
Events ==
    {KeyEvent(GLFW_KEY_ESCAPE, GLFW_PRESS), KeyEvent(GLFW_KEY_ESCAPE, GLFW_RELEASE),
     KeyEvent(GLFW_KEY_ENTER, GLFW_PRESS), CloseEvent}

\* values glfwGetTime can return (timer ticks since initialisation)
Ticks == {0, 1}

\* framebuffer sizes the provider can report (0 x 0 while minimised)
FbSizes == {<<InitWidth, InitHeight>>, <<0, 0>>}

----------------------------------------------------------------------------
(* Pure parts of the program *)

\* key_callback: the new value of the window's close flag
key_callback_NoActionCheck(flag, key, action) ==
    IF key = GLFW_KEY_ESCAPE THEN TRUE ELSE flag

key_callback_Assign(flag, key, action) ==
    key = GLFW_KEY_ESCAPE /\ action = GLFW_PRESS

key_callback(flag, key, action) ==
    IF key = GLFW_KEY_ESCAPE /\ action = GLFW_PRESS THEN TRUE ELSE flag

\* the loop condition of main: !glfwWindowShouldClose(window)
LoopCondition_Unchecked(flag) == TRUE

LoopCondition(flag) == ~flag

\* IEEE-754 single values, kept exact: a finite value is the reduced
\* fraction n/d (d > 0), an infinity carries its sign in n, NaN is NaN;
\* rounding and the sign of zero are left out
Floats == [kind : {"fin", "inf", "nan"}, n : Int, d : Nat]
NaN == [kind |-> "nan", n |-> 0, d |-> 0]
Inf(s) == [kind |-> "inf", n |-> s, d |-> 0]
Abs(i) == IF i < 0 THEN -i ELSE i
Sign(i) == IF i < 0 THEN -1 ELSE IF i > 0 THEN 1 ELSE 0
Gcd[a \in Nat, b \in Nat] == IF b = 0 THEN a ELSE Gcd[b, a % b]
Frac[a \in Int, b \in Int] ==
    IF b = 0
    THEN IF a = 0 THEN NaN ELSE Inf(Sign(a))
    ELSE LET g == Gcd[Abs(a), Abs(b)]
         IN  [kind |-> "fin", n |-> (Sign(b) * a) \div g, d |-> Abs(b) \div g]
Float[i \in Int] == Frac[i, 1]
Neg[x \in Floats] == IF x.kind = "nan" THEN NaN ELSE [x EXCEPT !.n = -x.n]
Add[x \in Floats, y \in Floats] ==
    IF x.kind = "nan" \/ y.kind = "nan" THEN NaN
    ELSE IF x.kind = "inf"
         THEN IF y.kind = "inf" /\ y.n # x.n THEN NaN ELSE x
    ELSE IF y.kind = "inf" THEN y
    ELSE Frac[x.n * y.d + y.n * x.d, x.d * y.d]
Sub[x \in Floats, y \in Floats] == Add[x, Neg[y]]
Mul[x \in Floats, y \in Floats] ==
    IF x.kind = "nan" \/ y.kind = "nan" THEN NaN
    ELSE IF x.kind = "inf" \/ y.kind = "inf"
         THEN IF x.n = 0 \/ y.n = 0 THEN NaN ELSE Inf(Sign(x.n) * Sign(y.n))
    ELSE Frac[x.n * y.n, x.d * y.d]
Div[x \in Floats, y \in Floats] ==
    IF x.kind = "nan" \/ y.kind = "nan" THEN NaN
    ELSE IF x.kind = "inf"
         THEN IF y.kind = "inf" THEN NaN
              ELSE Inf(x.n * (IF y.n < 0 THEN -1 ELSE 1))
    ELSE IF y.kind = "inf" THEN Float[0]
    ELSE Frac[x.n * y.d, x.d * y.n]

\* float ratio = width / static_cast<float>(height); IEEE-754 single:
\* x/0 is +inf for x > 0 and NaN for x = 0, no guard in the code
NoRatio == [kind |-> "unset", n |-> 0, d |-> 0]
RatioOne == Float[1]
ComputeRatio(w, h) == Div[Float[w], Float[h]]

\* cos and sin of the elapsed time at timer tick k: the ticks are the
\* instants at which the elapsed seconds are these angles, whose cosine
\* and sine are rational
CosSin ==
    <<  <<Frac[1, 1], Frac[0, 1]>>,
        <<Frac[3, 5], Frac[4, 5]>>,
        <<Frac[5, 13], Frac[12, 13]>>,
        <<Frac[0, 1], Frac[1, 1]>>,
        <<Frac[-3, 5], Frac[4, 5]>>,
        <<Frac[-1, 1], Frac[0, 1]>>  >>
Cos(k) == CosSin[k + 1][1]
Sin(k) == CosSin[k + 1][2]

\* glm::vec3, glm::vec4 and glm::mat4; a mat4 is column-major: a[c][r] is
\* column c, row r (from 1 here)
Vec3 == [1..3 -> Floats]
IntVec3 == [1..3 -> Int]
Vec4 == [1..4 -> Floats]
Mat4 == [1..4 -> Vec4]
Identity ==
    <<  <<Float[1], Float[0], Float[0], Float[0]>>,
        <<Float[0], Float[1], Float[0], Float[0]>>,
        <<Float[0], Float[0], Float[1], Float[0]>>,
        <<Float[0], Float[0], Float[0], Float[1]>>  >>
Scale3[v \in Vec3, s \in Floats] == <<Mul[v[1], s], Mul[v[2], s], Mul[v[3], s]>>
Scale[v \in Vec4, s \in Floats] ==
    <<Mul[v[1], s], Mul[v[2], s], Mul[v[3], s], Mul[v[4], s]>>
Plus[u \in Vec4, v \in Vec4] ==
    <<Add[u[1], v[1]], Add[u[2], v[2]], Add[u[3], v[3]], Add[u[4], v[4]]>>

\* glm::normalize for a vector along one coordinate axis
Normalize[v \in IntVec3] ==
    LET len == Abs(v[1]) + Abs(v[2]) + Abs(v[3])
    IN  <<Frac[v[1], len], Frac[v[2], len], Frac[v[3], len]>>

\* glm::rotate(a, angle, v), angle being the elapsed time at tick k
Rotate[a \in Mat4, k \in Nat, v \in IntVec3] ==
    LET c == Cos(k)
        s == Sin(k)
        axis == Normalize[v]
        temp == Scale3[axis, Sub[Float[1], c]]
        R11 == Add[c, Mul[temp[1], axis[1]]]
        R12 == Add[Mul[temp[1], axis[2]], Mul[s, axis[3]]]
        R13 == Sub[Mul[temp[1], axis[3]], Mul[s, axis[2]]]
        R21 == Sub[Mul[temp[2], axis[1]], Mul[s, axis[3]]]
        R22 == Add[c, Mul[temp[2], axis[2]]]
        R23 == Add[Mul[temp[2], axis[3]], Mul[s, axis[1]]]
        R31 == Add[Mul[temp[3], axis[1]], Mul[s, axis[2]]]
        R32 == Sub[Mul[temp[3], axis[2]], Mul[s, axis[1]]]
        R33 == Add[c, Mul[temp[3], axis[3]]]
    IN  <<Plus[Plus[Scale[a[1], R11], Scale[a[2], R12]], Scale[a[3], R13]],
          Plus[Plus[Scale[a[1], R21], Scale[a[2], R22]], Scale[a[3], R23]],
          Plus[Plus[Scale[a[1], R31], Scale[a[2], R32]], Scale[a[3], R33]],
          a[4]>>

\* glm::ortho(left, right, bottom, top, zNear, zFar)
Ortho[left, right, bottom, top, zNear, zFar \in Floats] ==
    <<  <<Div[Float[2], Sub[right, left]], Float[0], Float[0], Float[0]>>,
        <<Float[0], Div[Float[2], Sub[top, bottom]], Float[0], Float[0]>>,
        <<Float[0], Float[0], Neg[Div[Float[2], Sub[zFar, zNear]]], Float[0]>>,
        <<Neg[Div[Add[right, left], Sub[right, left]]],
          Neg[Div[Add[top, bottom], Sub[top, bottom]]],
          Neg[Div[Add[zFar, zNear], Sub[zFar, zNear]]],
          Float[1]>>  >>

\* glm's mat4 * vec4 and mat4 * mat4: column c of a * b is a applied to
\* column c of b
Apply[a \in Mat4, v \in Vec4] ==
    Plus[Plus[Scale[a[1], v[1]], Scale[a[2], v[2]]],
         Plus[Scale[a[3], v[3]], Scale[a[4], v[4]]]]
MatMul[a \in Mat4, b \in Mat4] ==
    <<Apply[a, b[1]], Apply[a, b[2]], Apply[a, b[3]], Apply[a, b[4]]>>

\* lines 260-267: m = rotate(identity, t, (-1,0,0));
\* p = ortho(-ratio, ratio, -1, 1, 1, -1); mvp = p * m
NoMatrix == <<>>
Transform_NearFarAscending(t, r) ==
    LET rot == Rotate[Identity, t, <<-1, 0, 0>>]
        prj == Ortho[Neg[r], r, Float[-1], Float[1], Float[-1], Float[1]]
    IN  [m |-> rot, p |-> prj, mvp |-> MatMul[prj, rot]]

Transform(t, r) ==
    LET rot == Rotate[Identity, t, <<-1, 0, 0>>]
        prj == Ortho[Neg[r], r, Float[-1], Float[1], Float[1], Float[-1]]
    IN  [m |-> rot, p |-> prj, mvp |-> MatMul[prj, rot]]

\* the transforms of every elapsed time and framebuffer size the model can
\* draw, computed once; TransformAt is Transform read through that table
TransformSizes == {0, InitHeight, InitWidth} \X {0, InitHeight, InitWidth}
TransformTable ==
    {[t |-> k, r |-> ComputeRatio(sz[1], sz[2]),
      val |-> Transform(k, ComputeRatio(sz[1], sz[2]))] :
        k \in 0..MaxTick, sz \in TransformSizes}
TransformAt(t, r) ==
    LET hits == {e \in TransformTable : e.t = t /\ e.r = r}
    IN  IF hits = {} THEN Transform(t, r) ELSE (CHOOSE e \in hits : TRUE).val

\* the statements before the loop, in program order
Prologue_LoaderAfterBuffers ==
    <<"setErrorCallback", "glfwInit", "windowHints", "createWindow",
      "checkWindow", "setKeyCallback", "makeContextCurrent", "swapInterval",
      "genBuffers", "gladLoad", "vertexShader", "fragmentShader",
      "linkProgram", "getLocations", "vertexAttribs", "getTime0">>

Prologue ==
    <<"setErrorCallback", "glfwInit", "windowHints", "createWindow",
      "checkWindow", "setKeyCallback", "makeContextCurrent", "gladLoad",
      "swapInterval", "genBuffers", "vertexShader", "fragmentShader",
      "linkProgram", "getLocations", "vertexAttribs", "getTime0">>

NextInPrologue(l) ==
    LET i == CHOOSE k \in 1..Len(Prologue) : Prologue[k] = l
    IN  IF i = Len(Prologue) THEN "loopHead" ELSE Prologue[i + 1]

\* if(!glfwInit()) and if(!window): the tests that guard the failure exits
InitFailed(ok) == ~ok

WindowMissing_Unchecked(w) == FALSE

WindowMissing(w) == w = "null"

\* glLinkProgram: a program with a stage that did not compile does not link
LinkResult(vs, fs, ok) ==
    IF vs = "ok" /\ fs = "ok" /\ ok THEN "ok" ELSE "failed"

\* the statements of the loop body, in program order
LoopBody_PresentFirst ==
    <<"getFramebufferSize", "computeRatio", "viewport", "clear", "getTime",
      "transform", "useProgram", "uniformMatrix", "swapBuffers", "drawArrays",
      "pollEvents">>

LoopBody ==
    <<"getFramebufferSize", "computeRatio", "viewport", "clear", "getTime",
      "transform", "useProgram", "uniformMatrix", "drawArrays", "swapBuffers",
      "pollEvents">>

\* the statement that follows statement l of the loop body
NextInLoop_BackToSetup(l) ==
    LET i == CHOOSE k \in 1..Len(LoopBody) : LoopBody[k] = l
    IN  IF i = Len(LoopBody) THEN "genBuffers" ELSE LoopBody[i + 1]

NextInLoop(l) ==
    LET i == CHOOSE k \in 1..Len(LoopBody) : LoopBody[k] = l
    IN  IF i = Len(LoopBody) THEN "loopHead" ELSE LoopBody[i + 1]

\* the statements after the loop, in program order
Epilogue_TerminateFirst == <<"terminate", "destroyWindow", "exitSuccess">>

Epilogue == <<"destroyWindow", "terminate", "exitSuccess">>

NextInEpilogue(l) ==
    LET i == CHOOSE k \in 1..Len(Epilogue) : Epilogue[k] = l
    IN  IF i = Len(Epilogue) THEN "done" ELSE Epilogue[i + 1]

----------------------------------------------------------------------------
(* State *)

VARIABLES
    pc,               \* position of main
    exitCode,         \* status passed to exit(), NoExit while running
    errorCallbackSet, \* glfwSetErrorCallback has been called
    glfwState,        \* "uninit", "init", "initFailed", "terminated"
    window,           \* "none", "null", "open", "destroyed"
    windowsCreated, windowsDestroyed, terminateCalls,
    keyCallbackRegs,  \* number of glfwSetKeyCallback calls
    contextCurrent, glLoaded, swapInterval,
    buffersCreated, buffersReleased,
    vsStatus, fsStatus, linkStatus,   \* "none", "ok", "failed"
    programsCreated, programsReleased,
    mvp_location, attribsEnabled,
    time,             \* the timer value read before the loop (line 230)
    closeFlag,        \* the window's should-close flag
    events,           \* events queued by the window system, not yet polled
    posted,           \* number of events posted so far
    clock,            \* last value returned by the timer
    callbackCalls,    \* invocations of key_callback
    lastKey,          \* the event last delivered to key_callback
    width, height,    \* the loop body's locals; -1 while not yet assigned
    ratio, frameTime, m, p, mvp, viewport, activeProgram, uploaded,
    iters, clears, draws, presents, polls,
    frameLog,         \* statements executed in the current iteration
    flagReads,        \* evaluations of glfwWindowShouldClose by main
    errorReports      \* invocations of error_callback

setupVars == <<errorCallbackSet, glfwState, keyCallbackRegs, contextCurrent,
               glLoaded, swapInterval, time>>
winVars == <<window, windowsCreated, windowsDestroyed, terminateCalls>>
gpuVars == <<buffersCreated, buffersReleased, vsStatus, fsStatus, linkStatus,
             programsCreated, programsReleased, mvp_location, attribsEnabled>>
envVars == <<events, posted, callbackCalls, lastKey>>
frameVars == <<width, height, ratio, frameTime, m, p, mvp, viewport, activeProgram,
               uploaded>>
countVars == <<iters, clears, draws, presents, polls>>

histVars == <<flagReads, errorReports>>

vars == <<pc, exitCode, setupVars, winVars, gpuVars, closeFlag, envVars, clock,
          frameVars, countVars, frameLog, histVars>>

NoKey == [type |-> "none", key |-> 0, action |-> 0]

\* the controller states of the frame loop
Phase ==
    IF pc = "loopHead" \/ \E k \in 1..Len(LoopBody) : LoopBody[k] = pc
    THEN "Running"
    ELSE IF \E k \in 1..Len(Epilogue) : Epilogue[k] = pc
    THEN "Terminated"
    ELSE IF pc = "done" THEN "Exited"
    ELSE "NotStarted"

Init ==
    /\ pc = "setErrorCallback"
    /\ exitCode = NoExit
    /\ errorCallbackSet = FALSE
    /\ glfwState = "uninit"
    /\ window = "none"
    /\ windowsCreated = 0 /\ windowsDestroyed = 0 /\ terminateCalls = 0
    /\ keyCallbackRegs = 0
    /\ contextCurrent = FALSE /\ glLoaded = FALSE /\ swapInterval = 0
    /\ buffersCreated = 0 /\ buffersReleased = 0
    /\ vsStatus = "none" /\ fsStatus = "none" /\ linkStatus = "none"
    /\ programsCreated = 0 /\ programsReleased = 0
    /\ mvp_location = NotFound /\ attribsEnabled = 0
    /\ time = 0
    /\ closeFlag = FALSE
    /\ events = <<>> /\ posted = 0 /\ clock = 0
    /\ callbackCalls = 0 /\ lastKey = NoKey
    /\ width = -1 /\ height = -1 /\ ratio = NoRatio /\ frameTime = 0
    /\ m = NoMatrix /\ p = NoMatrix /\ mvp = NoMatrix
    /\ viewport = <<0, 0>> /\ activeProgram = FALSE
    /\ uploaded = NoMatrix
    /\ iters = 0 /\ clears = 0 /\ draws = 0 /\ presents = 0 /\ polls = 0
    /\ frameLog = <<>>
    /\ flagReads = 0 /\ errorReports = 0

----------------------------------------------------------------------------
(* main, before the loop *)

\* line 109: glfwSetErrorCallback(error_callback)
SetErrorCallback ==
    /\ pc = "setErrorCallback"
    /\ errorCallbackSet' = TRUE
    /\ pc' = NextInPrologue("setErrorCallback")
    /\ UNCHANGED <<exitCode, glfwState, keyCallbackRegs, contextCurrent,
                   glLoaded, swapInterval, time, winVars, gpuVars, closeFlag,
                   envVars, clock, frameVars, countVars, frameLog>>
    /\ UNCHANGED histVars

\* lines 112-115: if(!glfwInit()) exit(EXIT_FAILURE)
GlfwInit ==
    /\ pc = "glfwInit"
    /\ \E ok \in BOOLEAN :
          IF InitFailed(ok)
          THEN /\ glfwState' = "initFailed"
               /\ exitCode' = EXIT_FAILURE
               /\ pc' = "done"
          ELSE /\ glfwState' = "init"
               /\ exitCode' = exitCode
               /\ pc' = NextInPrologue("glfwInit")
    /\ UNCHANGED <<errorCallbackSet, keyCallbackRegs, contextCurrent, glLoaded,
                   swapInterval, time, winVars, gpuVars, closeFlag, envVars,
                   clock, frameVars, countVars, frameLog>>
    /\ errorReports' = IF glfwState' = "initFailed" /\ errorCallbackSet
                        THEN errorReports + 1 ELSE errorReports
    /\ UNCHANGED flagReads

\* lines 127-128: glfwWindowHint(...) twice; no state the model tracks
WindowHints ==
    /\ pc = "windowHints"
    /\ pc' = NextInPrologue("windowHints")
    /\ UNCHANGED <<exitCode, setupVars, winVars, gpuVars, closeFlag, envVars,
                   clock, frameVars, countVars, frameLog>>
    /\ UNCHANGED histVars

\* line 130: window = glfwCreateWindow(640, 480, ...)
CreateWindow ==
    /\ pc = "createWindow"
    /\ \E ok \in BOOLEAN :
          IF ok
          THEN window' = "open" /\ windowsCreated' = windowsCreated + 1
          ELSE window' = "null" /\ windowsCreated' = windowsCreated
    /\ pc' = NextInPrologue("createWindow")
    /\ UNCHANGED <<exitCode, setupVars, windowsDestroyed, terminateCalls,
                   gpuVars, closeFlag, envVars, clock, frameVars, countVars,
                   frameLog>>
    /\ errorReports' = IF window' = "null" /\ errorCallbackSet
                        THEN errorReports + 1 ELSE errorReports
    /\ UNCHANGED flagReads

\* lines 135-140: if(!window) { glfwTerminate(); exit(EXIT_FAILURE); }
CheckWindow ==
    /\ pc = "checkWindow"
    /\ IF WindowMissing(window)
       THEN /\ terminateCalls' = terminateCalls + 1
            /\ glfwState' = "terminated"
            /\ exitCode' = EXIT_FAILURE
            /\ pc' = "done"
       ELSE /\ terminateCalls' = terminateCalls
            /\ glfwState' = glfwState
            /\ exitCode' = exitCode
            /\ pc' = NextInPrologue("checkWindow")
    /\ UNCHANGED <<errorCallbackSet, keyCallbackRegs, contextCurrent, glLoaded,
                   swapInterval, time, window, windowsCreated, windowsDestroyed,
                   gpuVars, closeFlag, envVars, clock, frameVars, countVars,
                   frameLog>>
    /\ UNCHANGED histVars

\* line 150: glfwSetKeyCallback(window, key_callback)
SetKeyCallback ==
    /\ pc = "setKeyCallback"
    /\ keyCallbackRegs' = keyCallbackRegs + 1
    /\ pc' = NextInPrologue("setKeyCallback")
    /\ UNCHANGED <<exitCode, errorCallbackSet, glfwState, contextCurrent,
                   glLoaded, swapInterval, time, winVars, gpuVars, closeFlag,
                   envVars, clock, frameVars, countVars, frameLog>>
    /\ UNCHANGED histVars

\* line 162: glfwMakeContextCurrent(window)
MakeContextCurrent ==
    /\ pc = "makeContextCurrent"
    /\ contextCurrent' = (window = "open")
    /\ pc' = NextInPrologue("makeContextCurrent")
    /\ UNCHANGED <<exitCode, errorCallbackSet, glfwState, keyCallbackRegs,
                   glLoaded, swapInterval, time, winVars, gpuVars, closeFlag,
                   envVars, clock, frameVars, countVars, frameLog>>
    /\ UNCHANGED histVars

\* line 164: gladLoadGLLoader(glfwGetProcAddress)
GladLoad ==
    /\ pc = "gladLoad"
    /\ glLoaded' = contextCurrent
    /\ pc' = NextInPrologue("gladLoad")
    /\ UNCHANGED <<exitCode, errorCallbackSet, glfwState, keyCallbackRegs,
                   contextCurrent, swapInterval, time, winVars, gpuVars,
                   closeFlag, envVars, clock, frameVars, countVars, frameLog>>
    /\ UNCHANGED histVars

\* line 182: glfwSwapInterval(1); takes effect only with a current context
SwapInterval ==
    /\ pc = "swapInterval"
    /\ swapInterval' = IF contextCurrent THEN SwapIntervalOne ELSE swapInterval
    /\ pc' = NextInPrologue("swapInterval")
    /\ UNCHANGED <<exitCode, errorCallbackSet, glfwState, keyCallbackRegs,
                   contextCurrent, glLoaded, time, winVars, gpuVars, closeFlag,
                   envVars, clock, frameVars, countVars, frameLog>>
    /\ UNCHANGED histVars

\* lines 186-188: glGenBuffers, glBindBuffer, glBufferData
GenBuffers ==
    /\ pc = "genBuffers"
    /\ buffersCreated' = buffersCreated + 1
    /\ pc' = NextInPrologue("genBuffers")
    /\ UNCHANGED <<exitCode, setupVars, winVars, buffersReleased, vsStatus,
                   fsStatus, linkStatus, programsCreated, programsReleased,
                   mvp_location, attribsEnabled, closeFlag, envVars, clock,
                   frameVars, countVars, frameLog>>
    /\ UNCHANGED histVars

\* lines 190-192: the vertex stage; the compile status is never read
VertexShader ==
    /\ pc = "vertexShader"
    /\ \E ok \in BOOLEAN : vsStatus' = IF ok THEN "ok" ELSE "failed"
    /\ pc' = NextInPrologue("vertexShader")
    /\ UNCHANGED <<exitCode, setupVars, winVars, buffersCreated,
                   buffersReleased, fsStatus, linkStatus, programsCreated,
                   programsReleased, mvp_location, attribsEnabled, closeFlag,
                   envVars, clock, frameVars, countVars, frameLog>>
    /\ UNCHANGED histVars

\* lines 194-196: the fragment stage; the compile status is never read
FragmentShader ==
    /\ pc = "fragmentShader"
    /\ \E ok \in BOOLEAN : fsStatus' = IF ok THEN "ok" ELSE "failed"
    /\ pc' = NextInPrologue("fragmentShader")
    /\ UNCHANGED <<exitCode, setupVars, winVars, buffersCreated,
                   buffersReleased, vsStatus, linkStatus, programsCreated,
                   programsReleased, mvp_location, attribsEnabled, closeFlag,
                   envVars, clock, frameVars, countVars, frameLog>>
    /\ UNCHANGED histVars

\* lines 198-201: glCreateProgram, glAttachShader x2, glLinkProgram; the
\* link status is never read
LinkProgram ==
    /\ pc = "linkProgram"
    /\ programsCreated' = programsCreated + 1
    /\ \E ok \in BOOLEAN : linkStatus' = LinkResult(vsStatus, fsStatus, ok)
    /\ pc' = NextInPrologue("linkProgram")
    /\ UNCHANGED <<exitCode, setupVars, winVars, buffersCreated,
                   buffersReleased, vsStatus, fsStatus, programsReleased,
                   mvp_location, attribsEnabled, closeFlag, envVars, clock,
                   frameVars, countVars, frameLog>>
    /\ UNCHANGED histVars

\* lines 203-205: glGetUniformLocation / glGetAttribLocation
GetLocations ==
    /\ pc = "getLocations"
    /\ mvp_location' = IF linkStatus = "ok" THEN 0 ELSE NotFound
    /\ pc' = NextInPrologue("getLocations")
    /\ UNCHANGED <<exitCode, setupVars, winVars, buffersCreated,
                   buffersReleased, vsStatus, fsStatus, linkStatus,
                   programsCreated, programsReleased, attribsEnabled,
                   closeFlag, envVars, clock, frameVars, countVars, frameLog>>
    /\ UNCHANGED histVars

\* lines 207-212: glEnableVertexAttribArray / glVertexAttribPointer, twice
VertexAttribs ==
    /\ pc = "vertexAttribs"
    /\ attribsEnabled' = attribsEnabled + 2
    /\ pc' = NextInPrologue("vertexAttribs")
    /\ UNCHANGED <<exitCode, setupVars, winVars, buffersCreated,
                   buffersReleased, vsStatus, fsStatus, linkStatus,
                   programsCreated, programsReleased, mvp_location, closeFlag,
                   envVars, clock, frameVars, countVars, frameLog>>
    /\ UNCHANGED histVars

\* line 230: double time = glfwGetTime(); the timer never runs backwards
GetTime0 ==
    /\ pc = "getTime0"
    /\ \E t \in {u \in Ticks : u >= clock} : time' = t /\ clock' = t
    /\ pc' = NextInPrologue("getTime0")
    /\ UNCHANGED <<exitCode, errorCallbackSet, glfwState, keyCallbackRegs,
                   contextCurrent, glLoaded, swapInterval, winVars, gpuVars,
                   closeFlag, envVars, frameVars, countVars, frameLog>>
    /\ UNCHANGED histVars

----------------------------------------------------------------------------
(* main, the frame loop *)

\* line 241: while (!glfwWindowShouldClose(window)); the loop body's locals
\* (lines 253, 255, 260) are fresh in every iteration
LoopHead ==
    /\ pc = "loopHead"
    /\ IF LoopCondition(closeFlag)
       THEN /\ iters < MaxIter
            /\ iters' = iters + 1
            /\ frameLog' = <<>>
            /\ width' = -1 /\ height' = -1
            /\ ratio' = NoRatio
            /\ m' = NoMatrix /\ p' = NoMatrix /\ mvp' = NoMatrix
            /\ pc' = LoopBody[1]
       ELSE /\ pc' = Epilogue[1]
            /\ UNCHANGED <<iters, frameLog, width, height, ratio, m, p, mvp>>
    /\ UNCHANGED <<exitCode, setupVars, winVars, gpuVars, closeFlag, envVars,
                   clock, frameTime, viewport, activeProgram, uploaded, clears,
                   draws, presents, polls>>
    /\ flagReads' = flagReads + 1
    /\ UNCHANGED errorReports

\* line 254: glfwGetFramebufferSize(window, &width, &height)
GetFramebufferSize ==
    /\ pc = "getFramebufferSize"
    /\ \E sz \in FbSizes : width' = sz[1] /\ height' = sz[2]
    /\ pc' = NextInLoop("getFramebufferSize")
    /\ frameLog' = Append(frameLog, "getFramebufferSize")
    /\ UNCHANGED <<exitCode, setupVars, winVars, gpuVars, closeFlag, envVars,
                   clock, ratio, frameTime, m, p, mvp, viewport, activeProgram,
                   uploaded, countVars>>
    /\ UNCHANGED histVars

\* line 255: float ratio = width / static_cast<float>(height)
ComputeRatioStep ==
    /\ pc = "computeRatio"
    /\ ratio' = ComputeRatio(width, height)
    /\ pc' = NextInLoop("computeRatio")
    /\ frameLog' = Append(frameLog, "computeRatio")
    /\ UNCHANGED <<exitCode, setupVars, winVars, gpuVars, closeFlag, envVars,
                   clock, width, height, frameTime, m, p, mvp, viewport,
                   activeProgram, uploaded, countVars>>
    /\ UNCHANGED histVars

\* line 257: glViewport(0, 0, width, height)
Viewport ==
    /\ pc = "viewport"
    /\ viewport' = <<width, height>>
    /\ pc' = NextInLoop("viewport")
    /\ frameLog' = Append(frameLog, "viewport")
    /\ UNCHANGED <<exitCode, setupVars, winVars, gpuVars, closeFlag, envVars,
                   clock, width, height, ratio, frameTime, m, p, mvp, activeProgram,
                   uploaded, countVars>>
    /\ UNCHANGED histVars

\* line 258: glClear(GL_COLOR_BUFFER_BIT)
Clear ==
    /\ pc = "clear"
    /\ clears' = clears + 1
    /\ pc' = NextInLoop("clear")
    /\ frameLog' = Append(frameLog, "clear")
    /\ UNCHANGED <<exitCode, setupVars, winVars, gpuVars, closeFlag, envVars,
                   clock, frameVars, iters, draws, presents, polls>>
    /\ UNCHANGED histVars

\* line 265: (float)glfwGetTime(), the argument of glm::rotate
GetTime ==
    /\ pc = "getTime"
    /\ \E t \in {u \in Ticks : u >= clock} : frameTime' = t /\ clock' = t
    /\ pc' = NextInLoop("getTime")
    /\ frameLog' = Append(frameLog, "getTime")
    /\ UNCHANGED <<exitCode, setupVars, winVars, gpuVars, closeFlag, envVars,
                   width, height, ratio, m, p, mvp, viewport, activeProgram,
                   uploaded, countVars>>
    /\ UNCHANGED histVars

\* lines 264-267: m = rotate(identity, t, axis); p = ortho(...); mvp = p * m
TransformStep_Cached ==
    /\ pc = "transform"
    /\ \E tr \in {TransformAt(frameTime, ratio)} :
          /\ m' = tr.m /\ p' = tr.p
          /\ mvp' = IF uploaded # NoMatrix THEN uploaded ELSE tr.mvp
    /\ pc' = NextInLoop("transform")
    /\ frameLog' = Append(frameLog, "transform")
    /\ UNCHANGED <<exitCode, setupVars, winVars, gpuVars, closeFlag, envVars,
                   clock, width, height, ratio, frameTime, viewport,
                   activeProgram, uploaded, countVars>>
    /\ UNCHANGED histVars

TransformStep ==
    /\ pc = "transform"
    /\ \E tr \in {TransformAt(frameTime, ratio)} :
          m' = tr.m /\ p' = tr.p /\ mvp' = tr.mvp
    /\ pc' = NextInLoop("transform")
    /\ frameLog' = Append(frameLog, "transform")
    /\ UNCHANGED <<exitCode, setupVars, winVars, gpuVars, closeFlag, envVars,
                   clock, width, height, ratio, frameTime, viewport,
                   activeProgram, uploaded, countVars>>
    /\ UNCHANGED histVars

\* line 269: glUseProgram(program)
UseProgram ==
    /\ pc = "useProgram"
    /\ activeProgram' = TRUE
    /\ pc' = NextInLoop("useProgram")
    /\ frameLog' = Append(frameLog, "useProgram")
    /\ UNCHANGED <<exitCode, setupVars, winVars, gpuVars, closeFlag, envVars,
                   clock, width, height, ratio, frameTime, m, p, mvp, viewport,
                   uploaded, countVars>>
    /\ UNCHANGED histVars

\* line 270: glUniformMatrix4fv(mvp_location, 1, GL_FALSE, value_ptr(mvp))
UniformMatrix ==
    /\ pc = "uniformMatrix"
    /\ uploaded' = mvp
    /\ pc' = NextInLoop("uniformMatrix")
    /\ frameLog' = Append(frameLog, "uniformMatrix")
    /\ UNCHANGED <<exitCode, setupVars, winVars, gpuVars, closeFlag, envVars,
                   clock, width, height, ratio, frameTime, m, p, mvp, viewport,
                   activeProgram, countVars>>
    /\ UNCHANGED histVars

\* line 271: glDrawArrays(GL_TRIANGLES, 0, 3)
DrawArrays ==
    /\ pc = "drawArrays"
    /\ draws' = draws + 1
    /\ pc' = NextInLoop("drawArrays")
    /\ frameLog' = Append(frameLog, "drawArrays")
    /\ UNCHANGED <<exitCode, setupVars, winVars, gpuVars, closeFlag, envVars,
                   clock, frameVars, iters, clears, presents, polls>>
    /\ UNCHANGED histVars

\* line 285: glfwSwapBuffers(window)
SwapBuffers ==
    /\ pc = "swapBuffers"
    /\ presents' = presents + 1
    /\ pc' = NextInLoop("swapBuffers")
    /\ frameLog' = Append(frameLog, "swapBuffers")
    /\ UNCHANGED <<exitCode, setupVars, winVars, gpuVars, closeFlag, envVars,
                   clock, frameVars, iters, clears, draws, polls>>
    /\ UNCHANGED histVars

\* line 302, glfwPollEvents delivering a key event: key_callback (lines 90-99)
\* runs with the event's key and action
KeyCallback_Async ==
    /\ window = "open"
    /\ events # <<>>
    /\ Head(events).type = "key"
    /\ keyCallbackRegs > 0
    /\ closeFlag' = key_callback(closeFlag, Head(events).key, Head(events).action)
    /\ lastKey' = Head(events)
    /\ callbackCalls' = callbackCalls + 1
    /\ events' = Tail(events)
    /\ UNCHANGED <<pc, exitCode, setupVars, winVars, gpuVars, posted, clock,
                   frameVars, countVars, frameLog>>
    /\ UNCHANGED histVars

\* a key event reaches key_callback only if glfwSetKeyCallback (line 150)
\* registered it; otherwise the library discards the event
KeyCallback ==
    /\ pc = "pollEvents"
    /\ events # <<>>
    /\ Head(events).type = "key"
    /\ IF keyCallbackRegs > 0
       THEN /\ closeFlag' = key_callback(closeFlag, Head(events).key,
                                         Head(events).action)
            /\ lastKey' = Head(events)
            /\ callbackCalls' = callbackCalls + 1
       ELSE UNCHANGED <<closeFlag, lastKey, callbackCalls>>
    /\ events' = Tail(events)
    /\ UNCHANGED <<pc, exitCode, setupVars, winVars, gpuVars, posted, clock,
                   frameVars, countVars, frameLog>>
    /\ UNCHANGED histVars

\* line 302, glfwPollEvents delivering a platform close request (title-bar X,
\* alt+f4: lines 237-238): the library sets the close flag itself
CloseRequest ==
    /\ pc = "pollEvents"
    /\ events # <<>>
    /\ Head(events).type = "close"
    /\ closeFlag' = TRUE
    /\ events' = Tail(events)
    /\ UNCHANGED <<pc, exitCode, setupVars, winVars, gpuVars, posted,
                   callbackCalls, lastKey, clock, frameVars, countVars,
                   frameLog>>
    /\ UNCHANGED histVars

\* line 302: glfwPollEvents returns once the queue is drained
PollReturn_BreakOnClose ==
    /\ pc = "pollEvents"
    /\ events = <<>>
    /\ polls' = polls + 1
    /\ flagReads' = flagReads + 1
    /\ pc' = IF closeFlag THEN Epilogue[1] ELSE NextInLoop("pollEvents")
    /\ frameLog' = Append(frameLog, "pollEvents")
    /\ UNCHANGED <<exitCode, setupVars, winVars, gpuVars, closeFlag, envVars,
                   clock, frameVars, iters, clears, draws, presents,
                   errorReports>>

PollReturn ==
    /\ pc = "pollEvents"
    /\ events = <<>>
    /\ polls' = polls + 1
    /\ pc' = NextInLoop("pollEvents")
    /\ frameLog' = Append(frameLog, "pollEvents")
    /\ UNCHANGED <<exitCode, setupVars, winVars, gpuVars, closeFlag, envVars,
                   clock, frameVars, iters, clears, draws, presents>>
    /\ UNCHANGED histVars

----------------------------------------------------------------------------
(* main, after the loop *)

\* line 315: glfwDestroyWindow(window); the context goes with the window
DestroyWindow ==
    /\ pc = "destroyWindow"
    /\ windowsDestroyed' = windowsDestroyed + 1
    /\ window' = "destroyed"
    /\ contextCurrent' = FALSE
    /\ pc' = NextInEpilogue("destroyWindow")
    /\ UNCHANGED <<exitCode, errorCallbackSet, glfwState, keyCallbackRegs,
                   glLoaded, swapInterval, time, windowsCreated,
                   terminateCalls, gpuVars, closeFlag, envVars, clock,
                   frameVars, countVars, frameLog>>
    /\ UNCHANGED histVars

\* line 318: glfwTerminate(); it also destroys any window still open
Terminate ==
    /\ pc = "terminate"
    /\ terminateCalls' = terminateCalls + 1
    /\ glfwState' = "terminated"
    /\ window' = IF window = "open" THEN "destroyed" ELSE window
    /\ pc' = NextInEpilogue("terminate")
    /\ UNCHANGED <<exitCode, errorCallbackSet, keyCallbackRegs, contextCurrent,
                   glLoaded, swapInterval, time, windowsCreated,
                   windowsDestroyed, gpuVars, closeFlag, envVars, clock,
                   frameVars, countVars, frameLog>>
    /\ UNCHANGED histVars

\* line 319: exit(EXIT_SUCCESS)
ExitSuccess ==
    /\ pc = "exitSuccess"
    /\ exitCode' = EXIT_SUCCESS
    /\ pc' = NextInEpilogue("exitSuccess")
    /\ UNCHANGED <<setupVars, winVars, gpuVars, closeFlag, envVars, clock,
                   frameVars, countVars, frameLog>>
    /\ UNCHANGED histVars

----------------------------------------------------------------------------
(* The environment *)

\* the user presses/releases a key or asks the platform to close the window;
\* the window system queues the event until the next glfwPollEvents
PostEvent ==
    /\ window = "open"
    /\ exitCode = NoExit
    /\ posted < MaxEvents
    /\ \E e \in Events : events' = Append(events, e)
    /\ posted' = posted + 1
    /\ UNCHANGED <<pc, exitCode, setupVars, winVars, gpuVars, closeFlag,
                   callbackCalls, lastKey, clock, frameVars, countVars,
                   frameLog>>
    /\ UNCHANGED histVars

----------------------------------------------------------------------------
(* Specifications *)

\* the steps of main's single thread
Main ==
    \/ SetErrorCallback \/ GlfwInit \/ WindowHints \/ CreateWindow
    \/ CheckWindow \/ SetKeyCallback \/ MakeContextCurrent \/ GladLoad
    \/ SwapInterval \/ GenBuffers \/ VertexShader \/ FragmentShader
    \/ LinkProgram \/ GetLocations \/ VertexAttribs \/ GetTime0
    \/ LoopHead \/ GetFramebufferSize \/ ComputeRatioStep \/ Viewport
    \/ Clear \/ GetTime \/ TransformStep \/ UseProgram \/ UniformMatrix
    \/ DrawArrays \/ SwapBuffers \/ KeyCallback \/ CloseRequest
    \/ PollReturn \/ DestroyWindow \/ Terminate \/ ExitSuccess

Next == Main \/ PostEvent

Spec == Init /\ [][Next]_vars

\* every call main makes returns, so its thread always takes its next step
FairSpec == Spec /\ WF_vars(Main)

----------------------------------------------------------------------------
(* key_callback on its own: the program is inside glfwPollEvents of its     *)
(* first iteration with one key event pending, for every key, action and    *)
(* value of the close flag (the flag is already set when a close request    *)
(* was delivered earlier in the same poll)                                  *)

CallbackInit ==
    /\ pc = "pollEvents"
    /\ exitCode = NoExit
    /\ errorCallbackSet = TRUE
    /\ glfwState = "init"
    /\ window = "open"
    /\ windowsCreated = 1 /\ windowsDestroyed = 0 /\ terminateCalls = 0
    /\ keyCallbackRegs = 1
    /\ contextCurrent = TRUE /\ glLoaded = TRUE /\ swapInterval = SwapIntervalOne
    /\ buffersCreated = 1 /\ buffersReleased = 0
    /\ vsStatus = "ok" /\ fsStatus = "ok" /\ linkStatus = "ok"
    /\ programsCreated = 1 /\ programsReleased = 0
    /\ mvp_location = 0 /\ attribsEnabled = 2
    /\ time = 0 /\ clock = 0
    /\ closeFlag \in BOOLEAN
    /\ \E e \in CallbackEvents : events = <<e>>
    /\ posted = IF closeFlag THEN 2 ELSE 1
    /\ callbackCalls = 0 /\ lastKey = NoKey
    /\ width = InitWidth /\ height = InitHeight
    /\ ratio = ComputeRatio(InitWidth, InitHeight)
    /\ frameTime = 0
    /\ m = Transform(0, ComputeRatio(InitWidth, InitHeight)).m
    /\ p = Transform(0, ComputeRatio(InitWidth, InitHeight)).p
    /\ mvp = Transform(0, ComputeRatio(InitWidth, InitHeight)).mvp
    /\ viewport = <<InitWidth, InitHeight>>
    /\ activeProgram = TRUE
    /\ uploaded = Transform(0, ComputeRatio(InitWidth, InitHeight)).mvp
    /\ iters = 1 /\ clears = 1 /\ draws = 1 /\ presents = 1 /\ polls = 0
    /\ frameLog = SubSeq(LoopBody, 1, Len(LoopBody) - 1)
    /\ flagReads = 1 /\ errorReports = 0

CallbackNext == KeyCallback

CallbackSpec == CallbackInit /\ [][CallbackNext]_vars

----------------------------------------------------------------------------
(* The transform on its own: the program is in its first iteration, about   *)
(* to compute m, p and mvp, for every elapsed time up to MaxTick and every  *)
(* framebuffer size of TransformSizes                                       *)

TransformInit ==
    /\ pc = "transform"
    /\ exitCode = NoExit
    /\ errorCallbackSet = TRUE
    /\ glfwState = "init"
    /\ window = "open"
    /\ windowsCreated = 1 /\ windowsDestroyed = 0 /\ terminateCalls = 0
    /\ keyCallbackRegs = 1
    /\ contextCurrent = TRUE /\ glLoaded = TRUE /\ swapInterval = SwapIntervalOne
    /\ buffersCreated = 1 /\ buffersReleased = 0
    /\ vsStatus = "ok" /\ fsStatus = "ok" /\ linkStatus = "ok"
    /\ programsCreated = 1 /\ programsReleased = 0
    /\ mvp_location = 0 /\ attribsEnabled = 2
    /\ time = 0
    /\ closeFlag = FALSE
    /\ events = <<>> /\ posted = 0
    /\ callbackCalls = 0 /\ lastKey = NoKey
    /\ \E sz \in TransformSizes :
          /\ width = sz[1] /\ height = sz[2]
          /\ ratio = ComputeRatio(sz[1], sz[2])
          /\ viewport = sz
    /\ \E k \in 0..MaxTick : frameTime = k /\ clock = k
    /\ m = NoMatrix /\ p = NoMatrix /\ mvp = NoMatrix
    /\ activeProgram = FALSE
    /\ uploaded = NoMatrix
    /\ iters = 1 /\ clears = 1 /\ draws = 0 /\ presents = 0 /\ polls = 0
    /\ frameLog = <<"getFramebufferSize", "computeRatio", "viewport", "clear",
                    "getTime">>
    /\ flagReads = 1 /\ errorReports = 0

TransformNext == TransformStep \/ UseProgram \/ UniformMatrix

TransformSpec == TransformInit /\ [][TransformNext]_vars

----------------------------------------------------------------------------
(* Properties *)

Stopped == Phase = "Terminated" \/ Phase = "Exited"

\* C1: when the close flag is true at the loop-condition check, main's next
\* step leaves the loop for Terminated, no draw, present or iteration is
\* ever counted again, and Terminated is in fact reached.
C1_LoopTermination ==
    /\ [][(pc = "loopHead" /\ closeFlag /\ pc' # pc) => Phase' = "Terminated"]_vars
    /\ [][((pc = "loopHead" /\ closeFlag) \/ Stopped)
            => (draws' = draws /\ presents' = presents /\ iters' = iters)]_vars
    /\ [][Stopped => Stopped']_vars
    /\ (pc = "loopHead" /\ closeFlag) ~> (Phase = "Terminated")

C1_Witness ==
    /\ pc = "destroyWindow" /\ closeFlag
    /\ iters = 1 /\ draws = 1 /\ presents = 1

\* C2: a key_callback invocation with (escape, pressed) makes the close flag
\* true; with escape and released/repeated, or with any other key and any
\* action, it leaves the flag as it was.
C2_InputHandler ==
    [][callbackCalls' # callbackCalls =>
         /\ (lastKey'.key = GLFW_KEY_ESCAPE /\ lastKey'.action = GLFW_PRESS)
              => closeFlag' = TRUE
         /\ (lastKey'.key = GLFW_KEY_ESCAPE
               /\ lastKey'.action \in {GLFW_RELEASE, GLFW_REPEAT})
              => closeFlag' = closeFlag
         /\ lastKey'.key # GLFW_KEY_ESCAPE => closeFlag' = closeFlag]_vars

C2_Witness ==
    /\ callbackCalls = 1 /\ posted = 1
    /\ lastKey = KeyEvent(GLFW_KEY_ESCAPE, GLFW_PRESS)
    /\ closeFlag

\* C3: after a failed vertex compile, fragment compile or link, the frame
\* loop is never entered and nothing is drawn or presented.
C3_ShaderFailureFatal ==
    (vsStatus = "failed" \/ fsStatus = "failed" \/ linkStatus = "failed")
        => (Phase # "Running" /\ iters = 0 /\ draws = 0 /\ presents = 0)

\* C4: in an iteration whose framebuffer height is 0, no division by zero
\* happens: the ratio is either not computed (draw skipped) or is the
\* sentinel 1.0.
C4_ZeroHeightGuarded ==
    (Phase = "Running" /\ height = 0)
        => (ratio.kind \in {"unset", "fin"}
              /\ (ratio.kind = "fin" => ratio = RatioOne))

\* C5: when glfwInit fails or glfwCreateWindow returns no window, the
\* process exits at once with EXIT_FAILURE, having created no GPU resource
\* and issued no clear, draw, present or poll.
C5_InitFailureExits ==
    (glfwState = "initFailed" \/ window = "null")
        => /\ pc \in {"checkWindow", "done"}
           /\ pc = "done" => exitCode = EXIT_FAILURE
           /\ exitCode \in {NoExit, EXIT_FAILURE}
           /\ buffersCreated = 0 /\ programsCreated = 0
           /\ vsStatus = "none" /\ fsStatus = "none" /\ linkStatus = "none"
           /\ iters = 0 /\ clears = 0 /\ draws = 0 /\ presents = 0 /\ polls = 0

C5_Witness ==
    /\ pc = "done" /\ window = "null"
    /\ exitCode = EXIT_FAILURE /\ terminateCalls = 1

\* C6: a run that reaches the frame loop has created exactly one vertex
\* buffer and one program, before the first iteration and never again; the
\* window is open throughout the loop and has been destroyed exactly once
\* when the process exits after the loop.
C6_ResourceLifecycle ==
    /\ (Phase = "Running" \/ Phase = "Terminated" \/ iters > 0)
         => (buffersCreated = 1 /\ programsCreated = 1 /\ windowsCreated = 1)
    /\ Phase = "Running" => (window = "open" /\ windowsDestroyed = 0)
    /\ (pc = "done" /\ exitCode = EXIT_SUCCESS)
         => (window = "destroyed" /\ windowsDestroyed = 1)
    /\ windowsDestroyed <= 1

C6_Witness ==
    /\ pc = "done" /\ exitCode = EXIT_SUCCESS /\ iters = 2
    /\ buffersCreated = 1 /\ programsCreated = 1 /\ windowsDestroyed = 1

\* C7: when the process exits after the loop, the shader program and the
\* vertex buffer have each been released exactly once.
C7_GpuResourcesReleased ==
    (pc = "done" /\ exitCode = EXIT_SUCCESS)
        => (programsReleased = 1 /\ buffersReleased = 1)

\* C8: no step of the program or its environment takes the close flag from
\* true back to false.
C8_CloseFlagMonotonic == [][closeFlag => closeFlag']_vars

C8_Witness ==
    /\ closeFlag /\ posted = 2 /\ callbackCalls = 2
    /\ lastKey = KeyEvent(GLFW_KEY_ESCAPE, GLFW_RELEASE)

\* C9: once the close flag is true the process reaches exit(EXIT_SUCCESS);
\* on that path glfwDestroyWindow precedes glfwTerminate, which precedes the
\* exit; and a process that has exited either took that path or exited with
\* EXIT_FAILURE before the loop.
C9_NormalExit ==
    /\ closeFlag ~> (pc = "done" /\ exitCode = EXIT_SUCCESS)
    /\ [][(terminateCalls' # terminateCalls /\ window # "null")
            => (Phase = "Terminated" /\ window = "destroyed"
                  /\ windowsDestroyed = 1 /\ exitCode = NoExit)]_vars
    /\ [][(windowsDestroyed' # windowsDestroyed)
            => (Phase = "Terminated" /\ closeFlag /\ glfwState = "init"
                  /\ exitCode = NoExit)]_vars
    /\ [][(exitCode' = EXIT_SUCCESS /\ exitCode # EXIT_SUCCESS)
            => (Phase = "Terminated" /\ closeFlag /\ windowsDestroyed = 1
                  /\ glfwState = "terminated" /\ terminateCalls = 1)]_vars
    /\ [](pc = "done" =>
            \/ exitCode = EXIT_SUCCESS /\ closeFlag
            \/ exitCode = EXIT_FAILURE /\ iters = 0 /\ draws = 0 /\ ~closeFlag)

C9_Witness ==
    /\ pc = "done" /\ exitCode = EXIT_SUCCESS /\ closeFlag
    /\ window = "destroyed" /\ glfwState = "terminated" /\ iters = 1

\* C10: the statements executed so far in an iteration are always an
\* initial part of: size query, ratio, viewport, clear, time query,
\* transform, bind program, upload matrix, draw, present, poll; and an
\* iteration that is over has executed all of them, each once.
C10_Order ==
    <<"getFramebufferSize", "computeRatio", "viewport", "clear", "getTime",
      "transform", "useProgram", "uniformMatrix", "drawArrays", "swapBuffers",
      "pollEvents">>

C10_PerIterationOrder ==
    /\ Len(frameLog) <= Len(C10_Order)
    /\ frameLog = SubSeq(C10_Order, 1, Len(frameLog))
    /\ (pc = "loopHead" /\ iters > 0) => frameLog = C10_Order
    /\ (Phase = "Running" /\ pc # "loopHead")
         => (Len(frameLog) < Len(C10_Order) /\ pc = C10_Order[Len(frameLog) + 1])

C10_Witness ==
    pc = "loopHead" /\ iters = 2 /\ frameLog = C10_Order /\ polls = 2

\* C11: main evaluates the close flag once per iteration, at the loop test
\* only; between that test and the end of the iteration no step leaves the
\* loop, whatever is queued and whatever the flag has become; and at every
\* loop test the draws, presents and polls issued equal the iterations
\* started.
C11_MidIterationClose ==
    /\ [](pc = "loopHead"
            => (draws = iters /\ presents = iters /\ polls = iters
                  /\ flagReads = iters))
    /\ []((Phase = "Running" /\ pc # "loopHead") => flagReads = iters)
    /\ [](Phase = "Terminated"
            => (flagReads = iters + 1 /\ draws = iters /\ presents = iters
                  /\ polls = iters))
    /\ [][flagReads' # flagReads => pc = "loopHead"]_vars
    /\ [][(Phase = "Running" /\ pc # "loopHead" /\ pc' # pc)
            => (Phase' = "Running" /\ iters' = iters)]_vars

C11_Witness ==
    /\ pc = "loopHead" /\ closeFlag /\ flagReads = 2
    /\ iters = 2 /\ draws = 2 /\ presents = 2 /\ polls = 2

\* C12: glfwSetKeyCallback is called exactly once, before the first
\* iteration; key_callback runs only inside glfwPollEvents, after the
\* iteration's draw and present; and an invocation changes nothing of the
\* program's state but the close flag: no GPU or window call, no counter, no
\* move of main.
C12_SynchronousCallback ==
    /\ [](Phase = "Running" => keyCallbackRegs = 1)
    /\ [][keyCallbackRegs' # keyCallbackRegs
            => (keyCallbackRegs = 0 /\ Phase = "NotStarted" /\ iters = 0)]_vars
    /\ [][callbackCalls' # callbackCalls
            => /\ pc = "pollEvents" /\ pc' = pc
               /\ keyCallbackRegs = 1
               /\ draws = iters /\ presents = iters /\ polls = iters - 1
               /\ UNCHANGED <<exitCode, setupVars, winVars, gpuVars, clock,
                              frameVars, countVars, frameLog>>]_vars

C12_Witness ==
    /\ pc = "pollEvents" /\ callbackCalls = 1 /\ keyCallbackRegs = 1
    /\ lastKey = KeyEvent(GLFW_KEY_ESCAPE, GLFW_PRESS) /\ closeFlag
    /\ iters = 1 /\ draws = 1 /\ presents = 1 /\ polls = 0

\* C13: once an iteration has uploaded its matrix, that matrix is the
\* transform of the elapsed time and the framebuffer size read in that same
\* iteration and of nothing else: not of the timer value read before the
\* loop, not of an earlier iteration's upload. Equal inputs give equal
\* uploads.
C13_NoCachedTransform ==
    (Phase = "Running" /\ \E i \in DOMAIN frameLog : frameLog[i] = "uniformMatrix")
        => uploaded = Transform(frameTime, ComputeRatio(width, height)).mvp

C13_Witness ==
    /\ iters = 2 /\ pc = "drawArrays"
    /\ time = 0 /\ frameTime = 1
    /\ width = InitWidth /\ height = InitHeight
    /\ uploaded = Transform(1, ComputeRatio(InitWidth, InitHeight)).mvp
    /\ uploaded # Transform(0, ComputeRatio(InitWidth, InitHeight)).mvp

\* the rotation by the elapsed time at tick k about the axis (-1, 0, 0), by
\* Rodrigues' formula: x' = x, y' = cos y + sin z, z' = -sin y + cos z
C14_Rotation(k) ==
    <<  <<Float[1], Float[0], Float[0], Float[0]>>,
        <<Float[0], Cos(k), Neg[Sin(k)], Float[0]>>,
        <<Float[0], Sin(k), Cos(k), Float[0]>>,
        <<Float[0], Float[0], Float[0], Float[1]>>  >>

\* the orthographic projection of [-r, r] x [-1, 1] with near 1 and far -1,
\* for a finite non-zero r: x' = x / r, y' = y, z' = z (the reversed depth
\* bounds leave z's sign alone)
C14_Projection(r) ==
    <<  <<Div[Float[1], r], Float[0], Float[0], Float[0]>>,
        <<Float[0], Float[1], Float[0], Float[0]>>,
        <<Float[0], Float[0], Float[1], Float[0]>>,
        <<Float[0], Float[0], Float[0], Float[1]>>  >>

\* projection x model for a finite non-zero r
C14_Product(k, r) ==
    <<  <<Div[Float[1], r], Float[0], Float[0], Float[0]>>,
        <<Float[0], Cos(k), Neg[Sin(k)], Float[0]>>,
        <<Float[0], Sin(k), Cos(k), Float[0]>>,
        <<Float[0], Float[0], Float[0], Float[1]>>  >>

C14_Regular(r) == r.kind = "fin" /\ r.n # 0

\* C14: for every elapsed time and aspect ratio, the uploaded matrix is
\* projection x model; model is the identity rotated by the elapsed time
\* about (-1, 0, 0), projection is the orthographic projection with bounds
\* [-r, r], [-1, 1] and near/far (1, -1); at time 0 the model is the identity.
C14_TransformComposition ==
    pc = "drawArrays"
        => /\ m = C14_Rotation(frameTime)
           /\ p = Ortho[Neg[ratio], ratio, Float[-1], Float[1], Float[1], Float[-1]]
           /\ uploaded = MatMul[p, m]
           /\ frameTime = 0 => m = Identity
           /\ C14_Regular(ratio)
                => /\ p = C14_Projection(ratio)
                   /\ uploaded = C14_Product(frameTime, ratio)

C14_Witness ==
    /\ pc = "drawArrays" /\ iters = 1 /\ draws = 0
    /\ frameTime = 1 /\ width = InitWidth /\ height = InitHeight
    /\ uploaded[1][1] = Frac[3, 4]
    /\ uploaded[2] = <<Float[0], Frac[3, 5], Frac[-4, 5], Float[0]>>
    /\ uploaded[3] = <<Float[0], Frac[4, 5], Frac[3, 5], Float[0]>>

\* the statements that set the swap interval or call into the GPU
C15_GpuCalls ==
    {"swapInterval", "genBuffers", "vertexShader", "fragmentShader",
     "linkProgram", "getLocations", "vertexAttribs", "viewport", "clear",
     "useProgram", "uniformMatrix", "drawArrays"}

\* C15: whenever the program is about to set the swap interval or make a
\* GPU call, and whenever a step changes the swap interval, a GPU resource,
\* the viewport, the active program, the uploaded matrix or the clear and
\* draw counts, the context is current and the GL loader has run; the error
\* callback is registered before glfwInit is called, and a failed glfwInit
\* has been reported through it.
C15_ContextBeforeGpuUse ==
    /\ [](pc \in C15_GpuCalls => (contextCurrent /\ glLoaded))
    /\ [][(gpuVars' # gpuVars \/ swapInterval' # swapInterval
              \/ viewport' # viewport \/ activeProgram' # activeProgram
              \/ uploaded' # uploaded \/ clears' # clears \/ draws' # draws)
            => (contextCurrent /\ glLoaded /\ pc \in C15_GpuCalls)]_vars
    /\ [][glLoaded' # glLoaded => contextCurrent]_vars
    /\ [](pc = "glfwInit" => errorCallbackSet)
    /\ [](glfwState # "uninit" => errorCallbackSet)
    /\ [](glfwState = "initFailed" => errorReports = 1)
    /\ [][errorReports' # errorReports => errorCallbackSet]_vars

C15_Witness ==
    /\ pc = "drawArrays" /\ iters = 1 /\ draws = 0
    /\ errorCallbackSet /\ glfwState = "init"
    /\ contextCurrent /\ glLoaded /\ swapInterval = SwapIntervalOne
    /\ buffersCreated = 1 /\ programsCreated = 1 /\ clears = 1

====
